---- MODULE Spec2Model ----
(***************************************************************************)
(* A model of ofblockmeshdicthelper/__init__.py: the BlockMeshDict vertex   *)
(* registry with aliasing (add_vertex, reduce_vertex), vertex index         *)
(* assignment (assign_vertexid with Vertex.__lt__ and the list sort), the   *)
(* section formatters that render vertex references, HexBlock.face with     *)
(* the projected-face registry, and Boundary face storage.                  *)
(*                                                                          *)
(* Python objects live in heaps keyed by object identity (vobj, bobj,       *)
(* lists); a registry maps a name to an object id, so that two names bound  *)
(* to one Vertex share its alias set and index exactly as in the source.    *)
(* `last` holds the most recent call: its name, arguments, the exception    *)
(* it raised ("" for none) and its return value; ncalls counts the calls.   *)
(*                                                                          *)
(* Left out: del_vertex, add_splineedge, add_sphere, set_metric, the        *)
(* geometry, faces and boundary formatters (Face.format renders indices     *)
(* with the expression of HexBlock.format and ArcEdge.format, which are     *)
(* modelled) and the text around the indices.  A Vertex is constructed      *)
(* with the name it is then registered under.  Dictionaries iterate in      *)
(* insertion order.                                                         *)
(***************************************************************************)
EXTENDS Integers, Sequences, FiniteSets, TLC

VARIABLES vertices, vobj, blocks, edges, valid_vertices,
          proj_faces, held, lists, bobj, boundaries, last, ncalls

vars == <<vertices, vobj, blocks, edges, valid_vertices,
          proj_faces, held, lists, bobj, boundaries, last, ncalls>>

vertexVars == <<vertices, vobj, edges, valid_vertices>>
faceVars == <<proj_faces, held>>
boundaryVars == <<lists, bobj, boundaries>>

----------------------------------------------------------------------------
(* Bounds of the model *)

\* a session makes at most MaxCalls calls
MaxCalls == 6
\* reduce_vertex is called with at most MaxOthers names after the primary
MaxOthers == 2

\* the names, coordinates and entities the calls draw their arguments from
Names == {"a", "b", "c"}
Coords == {<<0, 0, 0>>, <<1, 0, 0>>, <<0, 1, 1>>}
BlockNames == {"B1"}
EdgeNames == {"E1"}
Docs == {"d1", "d2"}

\* Vertex.index before assign_vertexid: Python's None
NoIndex == -1

EmptyMap == [n \in {} |-> 0]

----------------------------------------------------------------------------
(* Ordered dictionaries: a sequence of [name, val] in insertion order *)

DictKeys(d) == {d[i].name : i \in 1..Len(d)}

DictPos(d, k) == CHOOSE i \in 1..Len(d) : d[i].name = k

DictGet(d, k) == d[DictPos(d, k)].val

\* d[k] = v : an existing key keeps its position, a new key goes last
DictSet(d, k, v) ==
    IF k \in DictKeys(d)
    THEN [d EXCEPT ![DictPos(d, k)] = [name |-> k, val |-> v]]
    ELSE Append(d, [name |-> k, val |-> v])

----------------------------------------------------------------------------
(* Vertex *)

Vertex(x, y, z, name) ==
    [x |-> x, y |-> y, z |-> z, name |-> name, alias |-> {name}, index |-> NoIndex]

\* The identity of a Vertex object.  Every Vertex is constructed with the
\* name it is registered under and a name is registered once, so the name
\* given at construction tells the objects of one document apart.
Id(vertex) == vertex.name

\* Python's < on two 3-tuples of numbers
TupleLt(s, t) ==
    \/ s[1] < t[1]
    \/ s[1] = t[1] /\ s[2] < t[2]
    \/ s[1] = t[1] /\ s[2] = t[2] /\ s[3] < t[3]

\* Vertex.__lt__
VertexLt(self, rhs) == TupleLt(<<self.z, self.y, self.x>>, <<rhs.z, rhs.y, rhs.z>>)

----------------------------------------------------------------------------
(* sorted(list) on fewer than 64 elements: count_run on the whole list,     *)
(* a descending run reversed, then binary insertion of the rest.  xs is a   *)
(* sequence of object ids, vo the heap the comparison reads.                *)

Lt(vo, a, b) == VertexLt(vo[a], vo[b])

Reverse(s) == [i \in 1..Len(s) |-> s[Len(s) + 1 - i]]

RECURSIVE RunEnd(_, _, _, _)
\* the last index of the run that starts at 1 and has reached i
RunEnd(vo, xs, i, descending) ==
    IF i >= Len(xs) THEN i
    ELSE IF Lt(vo, xs[i + 1], xs[i]) = descending
         THEN RunEnd(vo, xs, i + 1, descending)
         ELSE i

RECURSIVE BinarySearch(_, _, _, _, _)
\* the insertion point of pivot in the sorted prefix xs[l+1..r] (0-based l, r)
BinarySearch(vo, xs, pivot, l, r) ==
    IF l >= r THEN l
    ELSE LET p == l + ((r - l) \div 2) IN
         IF Lt(vo, pivot, xs[p + 1])
         THEN BinarySearch(vo, xs, pivot, l, p)
         ELSE BinarySearch(vo, xs, pivot, p + 1, r)

InsertAt(xs, pos, start) ==
    [i \in 1..Len(xs) |->
        IF i <= pos THEN xs[i]
        ELSE IF i = pos + 1 THEN xs[start]
        ELSE IF i <= start THEN xs[i - 1]
        ELSE xs[i]]

RECURSIVE BinarySort(_, _, _)
\* xs[1..start-1] is sorted; insert xs[start], xs[start+1], ...
BinarySort(vo, xs, start) ==
    IF start > Len(xs) THEN xs
    ELSE LET pos == BinarySearch(vo, xs, xs[start], 0, start - 1) IN
         BinarySort(vo, InsertAt(xs, pos, start), start + 1)

PySorted(vo, xs) ==
    IF Len(xs) < 2 THEN xs
    ELSE LET descending == Lt(vo, xs[2], xs[1])
             n == RunEnd(vo, xs, 2, descending)
             run == IF descending
                    THEN Reverse(SubSeq(xs, 1, n)) \o SubSeq(xs, n + 1, Len(xs))
                    ELSE xs
         IN BinarySort(vo, run, n + 1)

----------------------------------------------------------------------------
(* BlockMeshDict: the vertex registry *)

\* one more call of the session
Tick == ncalls < MaxCalls /\ ncalls' = ncalls + 1

\* the record of a call; rep says that it repeats the call before it (the
\* same operation with the same arguments)
Call(op, args, err, ret) ==
    [op |-> op, args |-> args, err |-> err, ret |-> ret,
     rep |-> (last.op = op /\ last.args = args)]

\* add_vertex that overwrites the entry of a name already registered
add_vertex_overwrite(vertex, name) ==
    /\ vobj' = [i \in DOMAIN vobj \cup {Id(vertex)} |-> IF i = Id(vertex) THEN vertex ELSE vobj[i]]
    /\ vertices' = [n \in DOMAIN vertices \cup {name} |-> IF n = name THEN Id(vertex) ELSE vertices[n]]
    /\ last' = Call("add_vertex", <<name, vertex>>, "", vertices'[name])
    /\ Tick
    /\ UNCHANGED <<blocks, edges, valid_vertices, faceVars, boundaryVars>>

\* BlockMeshDict.add_vertex(vertex, name)
add_vertex(vertex, name) ==
    /\ IF name \in DOMAIN vertices
       THEN /\ UNCHANGED <<vertices, vobj>>
       ELSE /\ vobj' = vobj @@ (Id(vertex) :> vertex)
            /\ vertices' = vertices @@ (name :> Id(vertex))
    /\ last' = Call("add_vertex", <<name, vertex>>, "", vertices'[name])
    /\ Tick
    /\ UNCHANGED <<blocks, edges, valid_vertices, faceVars, boundaryVars>>

\* a loop body that rebinds the primary's name to w, not n to v
reduce_body_rebind_primary(vs, vo, name1, v, n) ==
    LET w == vs[n] IN
    [vertices |-> [vs EXCEPT ![name1] = w],
     vobj |-> [vo EXCEPT ![v].alias = @ \cup vo[w].alias]]

\* the body of reduce_vertex's loop for one name n that is in the registry;
\* v is the primary's record
reduce_body(vs, vo, name1, v, n) ==
    LET w == vs[n] IN
    [vertices |-> [vs EXCEPT ![n] = v],
     vobj |-> [vo EXCEPT ![v].alias = @ \cup vo[w].alias]]

RECURSIVE reduce_loop(_, _, _, _, _, _)
reduce_loop(vs, vo, name1, v, names, i) ==
    IF i > Len(names) THEN [vertices |-> vs, vobj |-> vo, err |-> ""]
    ELSE IF names[i] \notin DOMAIN vs
         THEN [vertices |-> vs, vobj |-> vo, err |-> "KeyError"]
         ELSE LET st == reduce_body(vs, vo, name1, v, names[i]) IN
              reduce_loop(st.vertices, st.vobj, name1, v, names, i + 1)

\* BlockMeshDict.reduce_vertex(name1, *names)
reduce_vertex(name1, names) ==
    LET r == IF name1 \notin DOMAIN vertices
             THEN [vertices |-> vertices, vobj |-> vobj, err |-> "KeyError"]
             ELSE reduce_loop(vertices, vobj, name1, vertices[name1], names, 1)
    IN /\ vertices' = r.vertices
       /\ vobj' = r.vobj
       /\ last' = Call("reduce_vertex", <<name1, names>>, r.err, 0)
       /\ Tick
       /\ UNCHANGED <<blocks, edges, valid_vertices, faceVars, boundaryVars>>

----------------------------------------------------------------------------
(* BlockMeshDict: blocks, edges and index assignment *)

\* BlockMeshDict.add_hexblock(vnames, cells, name, grading); cells and grading
\* are rendered only in the block's own line and are left out
add_hexblock(vnames, name) ==
    /\ blocks' = DictSet(blocks, name, vnames)
    /\ last' = Call("add_hexblock", <<name, vnames>>, "", 0)
    /\ Tick
    /\ UNCHANGED <<vertexVars, faceVars, boundaryVars>>

\* BlockMeshDict.add_arcedge(vnames, name, interVertex); the Point is left out
add_arcedge(vnames, name) ==
    /\ edges' = DictSet(edges, name, vnames)
    /\ last' = Call("add_arcedge", <<name, vnames>>, "", 0)
    /\ Tick
    /\ UNCHANGED <<vertices, vobj, blocks, valid_vertices, faceVars, boundaryVars>>

RECURSIVE Flatten(_)
\* the vertex names of d's entries, in iteration order
Flatten(d) == IF d = <<>> THEN <<>> ELSE Head(d).val \o Flatten(Tail(d))

RECURSIVE gather(_, _, _, _, _, _)
\* the first loop of assign_vertexid over the names refs[i..]
gather(vs, vo, refs, i, validvnames, acc) ==
    IF i > Len(refs) THEN [err |-> "", list |-> acc]
    ELSE IF refs[i] \notin DOMAIN vs THEN [err |-> "KeyError", list |-> acc]
    ELSE LET v == vs[refs[i]] IN
         IF vo[v].name \notin validvnames
         THEN gather(vs, vo, refs, i + 1, validvnames \cup {vo[v].name}, Append(acc, v))
         ELSE gather(vs, vo, refs, i + 1, validvnames, acc)

\* for i, v in enumerate(self.valid_vertices): v.index = i
enumerate_index(vo, sorted) ==
    [id \in DOMAIN vo |->
        IF \E i \in 1..Len(sorted) : sorted[i] = id
        THEN [vo[id] EXCEPT !.index = (CHOOSE i \in 1..Len(sorted) : sorted[i] = id) - 1]
        ELSE vo[id]]

\* BlockMeshDict.assign_vertexid()
assign_vertexid ==
    LET g == gather(vertices, vobj, Flatten(blocks), 1, {}, <<>>) IN
    /\ IF g.err # ""
       THEN /\ valid_vertices' = [defined |-> TRUE, list |-> g.list]
            /\ UNCHANGED vobj
       ELSE LET sorted == PySorted(vobj, g.list) IN
            /\ valid_vertices' = [defined |-> TRUE, list |-> sorted]
            /\ vobj' = enumerate_index(vobj, sorted)
    /\ last' = Call("assign_vertexid", <<>>, g.err, 0)
    /\ Tick
    /\ UNCHANGED <<vertices, blocks, edges, faceVars, boundaryVars>>

----------------------------------------------------------------------------
(* Section formatters.  A formatter returns text and changes nothing; its   *)
(* return value is modelled by what the text holds: for each entity the     *)
(* sequence of indices str(vertices[vn].index) renders, NoIndex standing    *)
(* for the text "None".                                                     *)

\* ' '.join(str(vertices[vn].index) for vn in self.vnames)
format_index(vs, vo, vnames) == [i \in 1..Len(vnames) |-> vo[vs[vnames[i]]].index]

\* the loop of a section formatter over the registry d
format_refs(vs, vo, d) ==
    IF \E i \in 1..Len(d) : \E j \in 1..Len(d[i].val) : d[i].val[j] \notin DOMAIN vs
    THEN [err |-> "KeyError", ret |-> <<>>]
    ELSE [err |-> "",
          ret |-> [i \in 1..Len(d) |->
                     [name |-> d[i].name, vnames |-> d[i].val,
                      index |-> format_index(vs, vo, d[i].val)]]]

\* Vertex.format: the index, the coordinates, the name and the aliases
vertex_format(v) == [index |-> v.index, x |-> v.x, y |-> v.y, z |-> v.z,
                     name |-> v.name, alias |-> v.alias]

\* BlockMeshDict.format_vertices_section()
format_vertices_section ==
    /\ last' = IF valid_vertices.defined
               THEN Call("format_vertices_section", <<>>, "",
                         [i \in 1..Len(valid_vertices.list) |->
                            vertex_format(vobj[valid_vertices.list[i]])])
               ELSE Call("format_vertices_section", <<>>, "AttributeError", <<>>)
    /\ Tick
    /\ UNCHANGED <<vertexVars, blocks, faceVars, boundaryVars>>

\* BlockMeshDict.format_blocks_section()
format_blocks_section ==
    /\ LET r == format_refs(vertices, vobj, blocks) IN
       last' = Call("format_blocks_section", <<>>, r.err, r.ret)
    /\ Tick
    /\ UNCHANGED <<vertexVars, blocks, faceVars, boundaryVars>>

\* BlockMeshDict.format_edges_section()
format_edges_section ==
    /\ LET r == format_refs(vertices, vobj, edges) IN
       last' = Call("format_edges_section", <<>>, r.err, r.ret)
    /\ Tick
    /\ UNCHANGED <<vertexVars, blocks, faceVars, boundaryVars>>

----------------------------------------------------------------------------
(* Face and HexBlock.face *)

Face(vnames, name) == [vnames |-> vnames, name |-> name]

HexBlock(vnames, name) == [vnames |-> vnames, name |-> name]

kw_to_index ==
    ("w" :> 0) @@ ("xm" :> 0) @@ ("-100" :> 0) @@
    ("e" :> 1) @@ ("xp" :> 1) @@ ("100" :> 1) @@
    ("s" :> 2) @@ ("ym" :> 2) @@ ("0-10" :> 2) @@
    ("n" :> 3) @@ ("yp" :> 3) @@ ("010" :> 3) @@
    ("b" :> 4) @@ ("zm" :> 4) @@ ("00-1" :> 4) @@
    ("t" :> 5) @@ ("zp" :> 5) @@ ("001" :> 5)

\* the table with face 1 as the docstring of HexBlock.face lists it
index_to_vertex_docstring ==
    << <<0, 4, 7, 3>>,
       <<1, 2, 5, 6>>,
       <<0, 1, 5, 4>>,
       <<2, 3, 7, 6>>,
       <<0, 3, 2, 1>>,
       <<4, 5, 6, 7>> >>

\* local corner positions (0-based into the block's 8 names) of face 0..5
index_to_vertex ==
    << <<0, 4, 7, 3>>,
       <<1, 2, 6, 5>>,
       <<0, 1, 5, 4>>,
       <<2, 3, 7, 6>>,
       <<0, 3, 2, 1>>,
       <<4, 5, 6, 7>> >>

\* 'f-{}-w' and the like, as the text before and after the block's name
index_to_defaultsuffix ==
    << <<"f-", "-w">>,
       <<"f-", "-n">>,
       <<"f-", "-s">>,
       <<"f-", "-n">>,
       <<"f-", "-b">>,
       <<"f-", "-t">> >>

\* list[i] of Python for a list of 6 items: 0-based, a negative i counts from
\* the end, anything else is an IndexError.  The result is the 1-based position.
ListIndex(i) == IF i >= 0 /\ i < 6 THEN i + 1
                ELSE IF i < 0 /\ i >= -6 THEN i + 7
                ELSE 0

\* HexBlock.face(index, name).  index is [isstr, str, int]: a keyword or a
\* number; name is [given, val], given = FALSE for name=None.
HexBlock_face(self, index, name) ==
    IF index.isstr /\ index.str \notin DOMAIN kw_to_index
    THEN [err |-> "KeyError", face |-> Face(<<>>, "")]
    ELSE LET idx == IF index.isstr THEN kw_to_index[index.str] ELSE index.int
             pos == ListIndex(idx)
         IN IF pos = 0
            THEN [err |-> "IndexError", face |-> Face(<<>>, "")]
            ELSE [err |-> "",
                  face |-> Face([k \in 1..4 |-> self.vnames[index_to_vertex[pos][k] + 1]],
                                IF name.given THEN name.val
                                ELSE index_to_defaultsuffix[pos][1] \o self.name
                                     \o index_to_defaultsuffix[pos][2])]

\* a caller takes a face of a registered block and keeps the returned Face
\* in `held`, with the block and the arguments it came from
take_face(bname, index, name) ==
    /\ bname \in DictKeys(blocks)
    /\ LET self == HexBlock(DictGet(blocks, bname), bname)
           r == HexBlock_face(self, index, name)
       IN /\ held' = [err |-> r.err, face |-> r.face, block |-> self,
                      index |-> index, name |-> name]
          /\ last' = Call("face", <<bname>>, r.err, 0)
    /\ Tick
    /\ UNCHANGED <<vertexVars, blocks, proj_faces, boundaryVars>>

\* BlockMeshDict.add_proj_face(name, face, proj_geometry_name) with the Face
\* the caller holds
add_proj_face(name, proj_geometry_name) ==
    /\ held.err = ""
    /\ proj_faces' = DictSet(proj_faces, held.face.name,
                             [face |-> held.face, proj_geom |-> proj_geometry_name])
    /\ last' = Call("add_proj_face", <<name>>, "", 0)
    /\ Tick
    /\ UNCHANGED <<vertexVars, blocks, held, boundaryVars>>

----------------------------------------------------------------------------
(* Boundary.  Python evaluates a default argument once, when the function   *)
(* is defined: lists[InitDefault] is the list object of Boundary.__init__'s *)
(* faces=[] and lists[AddDefault] the one of add_boundary's faces=[].       *)
(* lists is the heap of list objects, bobj the heap of Boundary objects.    *)

InitDefault == 1
AddDefault == 2

\* Boundary.__init__(type_, name, faces): faces is the id of a list object
Boundary(type_, name, faces, defaulted) ==
    [type_ |-> type_, name |-> name, faces |-> faces,
     \* not a field of the object: whether the call gave no face list
     defaulted |-> defaulted]

\* Boundary(type_, name) or Boundary(type_, name, faces) with a new list
new_boundary(type_, name, explicit, faces) ==
    /\ IF explicit
       THEN /\ lists' = Append(lists, faces)
            /\ bobj' = Append(bobj, Boundary(type_, name, Len(lists) + 1, FALSE))
       ELSE /\ UNCHANGED lists
            /\ bobj' = Append(bobj, Boundary(type_, name, InitDefault, TRUE))
    /\ last' = Call("Boundary", <<name>>, "", Len(bobj) + 1)
    /\ Tick
    /\ UNCHANGED <<vertexVars, blocks, faceVars, boundaries>>

\* BlockMeshDict.add_boundary(type_, name) or (type_, name, faces) on the
\* document doc
add_boundary(doc, type_, name, explicit, faces) ==
    /\ IF explicit
       THEN /\ lists' = Append(lists, faces)
            /\ bobj' = Append(bobj, Boundary(type_, name, Len(lists) + 1, FALSE))
       ELSE /\ UNCHANGED lists
            /\ bobj' = Append(bobj, Boundary(type_, name, AddDefault, TRUE))
    /\ boundaries' = [boundaries EXCEPT ![doc] = DictSet(@, name, Len(bobj) + 1)]
    /\ last' = Call("add_boundary", <<doc, name>>, "", Len(bobj) + 1)
    /\ Tick
    /\ UNCHANGED <<vertexVars, blocks, faceVars>>

\* Boundary.add_face(face) on the Boundary object b
add_face(b, face) ==
    /\ b \in 1..Len(bobj)
    /\ lists' = [lists EXCEPT ![bobj[b].faces] = Append(@, face)]
    /\ last' = Call("add_face", <<b>>, "", 0)
    /\ Tick
    /\ UNCHANGED <<vertexVars, blocks, faceVars, bobj, boundaries>>

----------------------------------------------------------------------------
(* The document after BlockMeshDict() *)

Init ==
    /\ vertices = EmptyMap
    /\ vobj = EmptyMap
    /\ blocks = <<>>
    /\ edges = <<>>
    /\ valid_vertices = [defined |-> FALSE, list |-> <<>>]
    /\ proj_faces = <<>>
    /\ held = [err |-> "NoCall", face |-> Face(<<>>, ""), block |-> HexBlock(<<>>, ""),
               index |-> [isstr |-> FALSE, str |-> "", int |-> 0],
               name |-> [given |-> FALSE, val |-> ""]]
    /\ lists = << <<>>, <<>> >>
    /\ bobj = <<>>
    /\ boundaries = [d \in Docs |-> <<>>]
    /\ last = [op |-> "__init__", args |-> <<>>, err |-> "", ret |-> 0, rep |-> FALSE]
    /\ ncalls = 0

\* the 8 corner names of a block, drawn from two registry names
Corners(p, q) == <<p, q, q, p, p, q, q, p>>

NameSeqs == UNION {[1..k -> Names] : k \in 1..MaxOthers}

\* add_vertex(Vertex(x, y, z, n), n)
NewVertex == \E n \in Names, c \in Coords : add_vertex(Vertex(c[1], c[2], c[3], n), n)

\* for the registry alone two places are enough to tell records apart
NewVertexAt2 ==
    \E n \in Names, c \in {<<0, 0, 0>>, <<1, 0, 0>>} : add_vertex(Vertex(c[1], c[2], c[3], n), n)

\* the vertex registry alone: add_vertex and reduce_vertex
NextRegistry ==
    \/ NewVertexAt2
    \/ \E n \in Names, ns \in NameSeqs : reduce_vertex(n, ns)

SpecRegistry == Init /\ [][NextRegistry]_vars

\* the registry with blocks and index assignment
NextIndex ==
    \/ NewVertex
    \/ \E n \in Names, m \in Names : reduce_vertex(n, <<m>>)
    \/ \E b \in BlockNames, p \in Names, q \in Names : add_hexblock(Corners(p, q), b)
    \/ assign_vertexid

SpecIndex == Init /\ [][NextIndex]_vars

\* the registry with blocks, edges, index assignment and the formatters
NextFormat ==
    \/ NewVertex
    \/ \E b \in BlockNames, p \in Names, q \in Names : add_hexblock(Corners(p, q), b)
    \/ \E e \in EdgeNames, p \in Names, q \in Names : add_arcedge(<<p, q>>, e)
    \/ assign_vertexid
    \/ format_vertices_section
    \/ format_blocks_section
    \/ format_edges_section

SpecFormat == Init /\ [][NextFormat]_vars

\* blocks and their faces, with the projected-face registry
FaceShapes == {<<"v0", "v1", "v2", "v3", "v4", "v5", "v6", "v7">>,
               <<"a", "b", "c", "d", "a", "b", "c", "d">>}

Keywords == DOMAIN kw_to_index \cup {"q"}

Selectors == {[isstr |-> TRUE, str |-> k, int |-> 0] : k \in Keywords}
             \cup {[isstr |-> FALSE, str |-> "", int |-> i] : i \in -1..6}

FaceNameArgs == {[given |-> FALSE, val |-> ""], [given |-> TRUE, val |-> "inlet"]}

NextFace ==
    \/ \E b \in BlockNames, sh \in FaceShapes : add_hexblock(sh, b)
    \/ \E b \in BlockNames, i \in Selectors, n \in FaceNameArgs : take_face(b, i, n)
    \/ \E g \in {"sphere"} : add_proj_face("pf", g)

SpecFace == Init /\ [][NextFace]_vars

\* Boundary objects of two documents and their face lists
BFaces == {Face(<<"a", "b", "c", "a">>, "f1"), Face(<<"b", "c", "a", "b">>, "f2")}

BoundaryNames == {"inlet"}

BoundaryIds == 1..MaxCalls

NextBoundary ==
    \/ \E n \in BoundaryNames, e \in BOOLEAN : new_boundary("patch", n, e, <<>>)
    \/ \E d \in Docs, n \in BoundaryNames, e \in BOOLEAN : add_boundary(d, "patch", n, e, <<>>)
    \/ \E b \in BoundaryIds, f \in BFaces : add_face(b, f)

SpecBoundary == Init /\ [][NextBoundary]_vars

----------------------------------------------------------------------------
(* Properties *)

\* The names the blocks refer to, and the records they resolve to
BlockRefs == {Flatten(blocks)[i] : i \in 1..Len(Flatten(blocks))}
Referenced == {vertices[n] : n \in BlockRefs \cap DOMAIN vertices}

\* (a.z, a.y, a.x) <= (b.z, b.y, b.x) lexicographically
ZyxLeq(a, b) ==
    \/ a.z < b.z
    \/ a.z = b.z /\ a.y < b.y
    \/ a.z = b.z /\ a.y = b.y /\ a.x <= b.x

\* C1: after a reduce_vertex call that returns, every name in the alias set
\* of the primary's record resolves in the registry to that record, and the
\* record has the coordinates the primary had before the call.
C1_AliasesResolveToPrimary ==
    [][(last'.op = "reduce_vertex" /\ last'.err = "") =>
         LET v == vertices[last'.args[1]] IN
         /\ \A n \in vobj'[v].alias : n \in DOMAIN vertices' /\ vertices'[n] = v
         /\ <<vobj'[v].x, vobj'[v].y, vobj'[v].z>> = <<vobj[v].x, vobj[v].y, vobj[v].z>>]_vars

\* C2: after an assign_vertexid call that returns, the indices are a
\* bijection between the records the blocks refer to and 0..N-1, and a
\* registry vertex no block refers to has no index and is not in
\* valid_vertices.
C2_IndexBijection ==
    (last.op = "assign_vertexid" /\ last.err = "") =>
        /\ {vobj[r].index : r \in Referenced} = 0..(Cardinality(Referenced) - 1)
        /\ \A r1, r2 \in Referenced : vobj[r1].index = vobj[r2].index => r1 = r2
        /\ \A n \in DOMAIN vertices :
              vertices[n] \notin Referenced =>
                 /\ vobj[vertices[n]].index = NoIndex
                 /\ \A i \in 1..Len(valid_vertices.list) : valid_vertices.list[i] # vertices[n]

\* C3: after an assign_vertexid call that returns, two indexed vertices A, B
\* with A.index < B.index have (A.z, A.y, A.x) <= (B.z, B.y, B.x).
C3_ListingAscendingZyx ==
    (last.op = "assign_vertexid" /\ last.err = "") =>
        \A i, j \in 1..Len(valid_vertices.list) :
            vobj[valid_vertices.list[i]].index < vobj[valid_vertices.list[j]].index
               => ZyxLeq(vobj[valid_vertices.list[i]], vobj[valid_vertices.list[j]])

\* C4: a formatter of vertex references either fails or renders for every
\* referenced name a defined index, the position of the name's record in the
\* vertices listing.
C4_FormatterIndexDefined ==
    (last.op \in {"format_blocks_section", "format_edges_section"} /\ last.err = "") =>
        \A i \in 1..Len(last.ret) : \A j \in 1..Len(last.ret[i].index) :
            LET ix == last.ret[i].index[j] IN
            /\ ix # NoIndex
            /\ valid_vertices.defined
            /\ ix + 1 \in 1..Len(valid_vertices.list)
            /\ valid_vertices.list[ix + 1] = vertices[last.ret[i].vnames[j]]

\* C5: add_face on a boundary created without a face list leaves the face
\* list of every other boundary created without a face list unchanged.
C5_DefaultFaceListsIndependent ==
    [][last'.op = "add_face" =>
         \A b \in 1..Len(bobj) :
            (b # last'.args[1] /\ bobj[b].defaulted /\ bobj[last'.args[1]].defaulted)
               => lists'[bobj'[b].faces] = lists[bobj[b].faces]]_vars

\* C6: reduce_vertex with a name that is not in the registry fails with a
\* KeyError and leaves the registry and every alias set as they were.
C6_FailedReduceChangesNothing ==
    [][(/\ last'.op = "reduce_vertex"
        /\ \/ last'.args[1] \notin DOMAIN vertices
           \/ \E i \in 1..Len(last'.args[2]) : last'.args[2][i] \notin DOMAIN vertices)
       => (last'.err = "KeyError" /\ vertices' = vertices /\ vobj' = vobj)]_vars

\* C8: add_vertex with a name already in the registry changes neither the
\* registry nor any record (alias sets and indices included) and returns
\* the record the name already resolved to.
C8_AddExistingKeepsRegistry ==
    [][(last'.op = "add_vertex" /\ last'.args[1] \in DOMAIN vertices) =>
         /\ vertices' = vertices
         /\ vobj' = vobj
         /\ last'.ret = vertices[last'.args[1]]]_vars

\* C8's case: add_vertex was called with a name that an earlier reduce_vertex
\* bound as an alias of another record, which has an index, and the vertex
\* passed is not the record kept.
C8_Witness ==
    /\ last.op = "add_vertex"
    /\ last.ret # last.args[1]
    /\ vertices[last.args[1]] = last.ret
    /\ vobj[last.ret].index # NoIndex
    /\ Cardinality(vobj[last.ret].alias) > 1
    /\ vobj[last.ret] # last.args[2]

\* C9: a reduce_vertex call that repeats the call before it changes neither
\* the registry nor any record.
C9_ReduceIdempotent ==
    [][(last'.op = "reduce_vertex" /\ last'.rep) =>
         (vertices' = vertices /\ vobj' = vobj)]_vars

\* C9's case: a reduce_vertex call with two other names that merged three
\* records has been repeated.
C9_Witness ==
    /\ last.op = "reduce_vertex"
    /\ last.rep
    /\ last.err = ""
    /\ Len(last.args[2]) = 2
    /\ Cardinality(vobj[vertices[last.args[1]]].alias) = 3

\* the face index the docstring of HexBlock.face gives a selector, -1 for a
\* string that is no keyword
DocumentedIndex(index) ==
    IF ~index.isstr THEN index.int
    ELSE IF index.str \in {"w", "xm", "-100"} THEN 0
    ELSE IF index.str \in {"e", "xp", "100"} THEN 1
    ELSE IF index.str \in {"s", "ym", "0-10"} THEN 2
    ELSE IF index.str \in {"n", "yp", "010"} THEN 3
    ELSE IF index.str \in {"b", "zm", "00-1"} THEN 4
    ELSE IF index.str \in {"t", "zp", "001"} THEN 5
    ELSE -1

\* the corners of the block at the local positions pos (0-based)
CornersAt(block, pos) == [k \in 1..4 |-> block.vnames[pos[k] + 1]]

C10_ProjFacesKeepOtherFaces ==
    [][(last'.op = "add_proj_face" /\ ~held.name.given) =>
         \A i \in 1..Len(proj_faces) :
            (/\ proj_faces[i].val.face.vnames # held.face.vnames
             /\ \E j \in 1..6 :
                  proj_faces[i].val.face.vnames = CornersAt(held.block, index_to_vertex[j]))
            => proj_faces'[i] = proj_faces[i]]_vars

====
